---- MODULE Spec2Model ----
(***************************************************************************)
(* Model of watch_csfloat.py: the global auction sniper.  One pass         *)
(* (run_once) loads the stage map, scans the auction pages, filters the    *)
(* auctions by time window, stage and bid, looks up a buy-now reference    *)
(* price per item name, ranks and caps the deals, marks their stages,      *)
(* saves the stage map and hands the deals to the notifier.  main repeats  *)
(* the pass every INTERVAL_S seconds unless SINGLE_PASS is set.            *)
(*                                                                         *)
(* Every network request (_get) is one step of the model, and so are the   *)
(* two halves of save_state (open-for-write, which truncates, and          *)
(* json.dump), so that failures and crashes between them are visible.      *)
(*                                                                         *)
(* Money is kept in units of 1/200 USD (half cents): the API's minor       *)
(* units are cents, and the median of an even sample of cent prices may    *)
(* fall on a half cent.                                                    *)
(***************************************************************************)
EXTENDS Integers, Sequences, FiniteSets, TLC

\* ------------------------------------------------------------ configuration
INTERVAL_S == 60
PAGE_LIMIT == 50
PAGES == 3
MAX_REF_ITEMS == 30
MIN_SAMPLES == 3
\* PROFIT_UNDER = 0.12, as a percentage
PROFIT_UNDER_PCT == 12
\* MAX_BID_USD = 1500.0, in USD
MAX_BID_USD == 1500
STAGE_10M == "t10"
STAGE_5M == "t5"
TOP_N_GLOBAL == 10

\* ------------------------------------------------------------ bounds
\* passes (run_once calls, restarts included) explored per behaviour, in the
\* base scenario and in the scenarios with the larger pages
MaxPasses == 3
MaxPassesWide == 2
\* length of the long auction page of the ranking scenario
PadLen == 31
\* largest buy-now sample of the reference-price scenario
MaxSample == 21
\* wall clock (Unix seconds) at the first pass
Now0 == 1700000000

\* ------------------------------------------------------------ values
\* a numeric field that is absent or not a number (fails isinstance)
NONE == -1
\* An expiry timestamp is the number mega * 10^6 + unit with 0 <= unit < 10^6
\* (millisecond timestamps do not fit a 32-bit integer).
MEGA == 1000000
Stamp(secs) == [mega |-> secs \div MEGA, unit |-> secs % MEGA]
StampMs(secs, ms) == [mega |-> secs \div 1000, unit |-> (secs % 1000) * 1000 + ms]
\* a timestamp field that is absent, not a number or not positive
NoStamp == [mega |-> 0, unit |-> 0]
\* t > 0
positive(t) == t.mega > 0 \/ (t.mega = 0 /\ t.unit > 0)
\* t > 10**12: the timestamp is read as milliseconds
above_ms_threshold(t) == t.mega > MEGA \/ (t.mega = MEGA /\ t.unit > 0)
\* bids above 50 are read as cents, bids up to 50 as whole dollars
UNIT_SWITCH == 50
\* half cents per cent and per dollar
HalfPerCent == 2
HalfPerUsd == 200

Max(a, b) == IF a >= b THEN a ELSE b
Min(a, b) == IF a <= b THEN a ELSE b
Take(s, n) == SubSeq(s, 1, Min(n, Len(s)))
Range(s) == {s[i] : i \in 1..Len(s)}

\* The limits tried in turn by fetch_all_auctions and by ref_price_for_item.
AuctionLimits == <<PAGE_LIMIT, 25, 10>>
RefLimits == <<50, 25, 10>>

\* ------------------------------------------------------------ records
(***************************************************************************)
(* A fetched auction record L.  isdict: L is a mapping.  id_t/id_n: the    *)
(* "id" field, absent ("none"), an integer n or the string of n's digits   *)
(* (NONE for the empty string).  The numeric fields hold NONE when absent  *)
(* or not a number, the timestamp fields NoStamp.                          *)
(* auction_t: whether L["auction"] is a mapping, with                      *)
(* its ends_at and current_bid.  item_t: L["item"] is absent ("none"), a   *)
(* mapping ("dict") or some other truthy value ("str"); name is its        *)
(* market_hash_name ("" when absent).                                      *)
(***************************************************************************)
Auc(idt, idn, tl, exp, bid, nm) ==
    [isdict |-> TRUE, id_t |-> idt, id_n |-> idn,
     time_left |-> tl, expires_at |-> exp, ends_at |-> NoStamp, end_time |-> NoStamp,
     auction_t |-> "none", auction_ends_at |-> NoStamp, auction_bid |-> NONE,
     current_bid |-> bid, current_price |-> NONE, price |-> NONE,
     item_t |-> IF nm = "" THEN "none" ELSE "dict", name |-> nm]

\* str(L.get("id") or ""): the digits of the id, the same for the integer n
\* and for the string "n"; NONE stands for the empty string.
lid_of(L) ==
    CASE L.id_t = "none" -> NONE
      [] L.id_t = "int" -> IF L.id_n = 0 THEN NONE ELSE L.id_n
      [] OTHER -> L.id_n

\* if t > 10**12: t /= 1000.0; then max(0, int(t - now))
expiry_secs(t, now) ==
    Max(0, (IF above_ms_threshold(t)
            THEN t.mega * 1000 + t.unit \div 1000
            ELSE t.mega * MEGA + t.unit) - now)

\* the expiry fields read before time_left
seconds_left_expiry_first(L, now) ==
    IF positive(L.expires_at) THEN expiry_secs(L.expires_at, now)
    ELSE IF positive(L.ends_at) THEN expiry_secs(L.ends_at, now)
    ELSE IF positive(L.end_time) THEN expiry_secs(L.end_time, now)
    ELSE IF L.time_left > 0 THEN L.time_left
    ELSE IF L.auction_t = "dict" /\ positive(L.auction_ends_at)
         THEN expiry_secs(L.auction_ends_at, now)
    ELSE NONE

seconds_left(L, now) ==
    IF L.time_left > 0 THEN L.time_left
    ELSE IF positive(L.expires_at) THEN expiry_secs(L.expires_at, now)
    ELSE IF positive(L.ends_at) THEN expiry_secs(L.ends_at, now)
    ELSE IF positive(L.end_time) THEN expiry_secs(L.end_time, now)
    ELSE IF L.auction_t = "dict" /\ positive(L.auction_ends_at)
         THEN expiry_secs(L.auction_ends_at, now)
    ELSE NONE

\* v/100.0 if v > 50 else float(v), in half cents
bid_units(v) == IF v > UNIT_SWITCH THEN v * HalfPerCent ELSE v * HalfPerUsd

current_bid_usd(L) ==
    IF L.current_bid > 0 THEN bid_units(L.current_bid)
    ELSE IF L.current_price > 0 THEN bid_units(L.current_price)
    ELSE IF L.price > 0 THEN bid_units(L.price)
    ELSE IF L.auction_t = "dict" /\ L.auction_bid > 0 THEN bid_units(L.auction_bid)
    ELSE NONE

\* ------------------------------------------------------------ stage map
\* The stage map is a function from the recorded listing ids to their stage.
EmptyMap == [x \in {} |-> STAGE_10M]
StageGet(m, lid) == IF lid \in DOMAIN m THEN m[lid] ELSE "unseen"
StagePut(m, lid, st) == [x \in DOMAIN m \cup {lid} |-> IF x = lid THEN st ELSE m[x]]

\* ------------------------------------------------------------ prefilter
\* the windows with their upper borders left out
stage_window_open(secs) ==
    IF 0 <= secs /\ secs < 5 * 60 THEN STAGE_5M
    ELSE IF 5 * 60 <= secs /\ secs < 10 * 60 THEN STAGE_10M
    ELSE "none"

\* run_once lines 211-217: the stage window of secs, "none" outside both
stage_window(secs) ==
    IF 0 <= secs /\ secs <= 5 * 60 THEN STAGE_5M
    ELSE IF 5 * 60 < secs /\ secs <= 10 * 60 THEN STAGE_10M
    ELSE "none"

\* any recorded stage counts as sent
already_sent_any(m, lid, stage_needed) == StageGet(m, lid) # "unseen"
\* run_once line 220: this stage was already sent for the id
already_sent(m, lid, stage_needed) == StageGet(m, lid) = stage_needed

\* run_once line 224: the bid is absent, non-positive or above the ceiling
bad_bid(bid) == bid = NONE \/ bid <= 0 \/ bid > MAX_BID_USD * HalfPerUsd

\* What the loop of run_once lines 204-233 does with one record: "skip" it,
\* "keep" it as a candidate, or "raise" (item is truthy but has no .get).
verdict(L, m, now) ==
    LET secs == seconds_left(L, now) IN
    IF ~L.isdict THEN "skip"
    ELSE IF lid_of(L) = NONE THEN "skip"
    ELSE IF secs = NONE THEN "skip"
    ELSE IF stage_window(secs) = "none" THEN "skip"
    ELSE IF already_sent(m, lid_of(L), stage_window(secs)) THEN "skip"
    ELSE IF bad_bid(current_bid_usd(L)) THEN "skip"
    ELSE IF L.item_t = "str" THEN "raise"
    ELSE IF L.item_t = "none" \/ L.name = "" THEN "skip"
    ELSE "keep"

candidate(L, now) ==
    [L |-> L, lid |-> lid_of(L), name |-> L.name, secs |-> seconds_left(L, now),
     stage_needed |-> stage_window(seconds_left(L, now)), bid |-> current_bid_usd(L)]

KeptOf(aucs, m, now) == SelectSeq(aucs, LAMBDA L : verdict(L, m, now) = "keep")

prefilter(aucs, m, now) ==
    LET kept == KeptOf(aucs, m, now) IN
    [raised |-> \E i \in 1..Len(aucs) : verdict(aucs[i], m, now) = "raise",
     candidates |-> [i \in 1..Len(kept) |-> candidate(kept[i], now)]]

\* ------------------------------------------------------------ HTTP
(***************************************************************************)
(* A response of the listings endpoint: status "ok" (HTTP 200),            *)
(* "http_error" (any other status) or "timeout" (requests raises: timeout  *)
(* or network failure).  The JSON body holds a list under `key` and a      *)
(* cursor token ("" when none).                                            *)
(***************************************************************************)
Resp(st, k, l, c) == [status |-> st, key |-> k, list |-> l, cursor |-> c]
EmptyBody == [key |-> "none", list |-> <<>>, cursor |-> ""]

\* _get: the body on HTTP 200, {} on another status; S.get's exception is
\* not caught and propagates to the caller.
get(resp) ==
    [raised |-> resp.status = "timeout",
     data |-> IF resp.status = "ok"
              THEN [key |-> resp.key, list |-> resp.list, cursor |-> resp.cursor]
              ELSE EmptyBody]

\* only the list under "data" is read
parse_list_data_only(data) ==
    IF data.key = "data" THEN data.list ELSE <<>>

\* _parse_list: the list under "data", "listings", "results" or "items"
parse_list(data) ==
    IF data.key \in {"data", "listings", "results", "items"} THEN data.list ELSE <<>>

\* ------------------------------------------------------------ reference price
RECURSIVE InsertNum(_, _)
InsertNum(x, s) ==
    IF s = <<>> THEN <<x>>
    ELSE IF x < Head(s) THEN <<x>> \o s
    ELSE <<Head(s)>> \o InsertNum(x, Tail(s))

RECURSIVE sorted(_)
sorted(s) == IF s = <<>> THEN <<>> ELSE InsertNum(s[Len(s)], sorted(SubSeq(s, 1, Len(s) - 1)))

\* the upper of the two middle elements taken for an even count
median_upper(s) == s[Len(s) \div 2 + 1]

\* statistics.median of a sorted non-empty sequence (of even numbers)
median(s) ==
    IF Len(s) % 2 = 1 THEN s[(Len(s) + 1) \div 2]
    ELSE (s[Len(s) \div 2] + s[Len(s) \div 2 + 1]) \div 2

\* half of the prices dropped from each end
trim_half(s) ==
    IF Len(s) >= 6
    THEN SubSeq(s, Max(1, Len(s) \div 2) + 1, Len(s) - Max(1, Len(s) \div 2))
    ELSE s

\* prices[k:-k] with k = max(1, int(len * 0.10))
trim(s) ==
    IF Len(s) >= 6
    THEN SubSeq(s, Max(1, Len(s) \div 10) + 1, Len(s) - Max(1, Len(s) \div 10))
    ELSE s

trimmed_median(prices) ==
    LET rest == trim(sorted(prices)) IN
    IF Len(prices) < MIN_SAMPLES THEN NONE
    ELSE IF rest = <<>> THEN NONE
    ELSE median(rest)

\* ref_price_for_item line 126: the positive prices of the listings, in half cents
prices_of(lst) ==
    LET pos == SelectSeq(lst, LAMBDA p : p > 0) IN
    [i \in 1..Len(pos) |-> pos[i] * HalfPerCent]

\* One turn of the loop of ref_price_for_item on the body it got: the
\* reference price it returns, or NONE to go on with the next limit.
ref_attempt(data) ==
    LET prices == prices_of(parse_list(data))
        rp == trimmed_median(prices)
    IN IF prices = <<>> THEN NONE
       ELSE IF rp \in {NONE, 0} THEN NONE
       ELSE rp

\* run_once lines 240-245: the names that are looked up.  refs is still
\* empty while unique_names is filled, so "name not in refs" holds for every
\* name and each candidate's name is appended.
unique_names(cands) == [i \in 1..Len(cands) |-> cands[i].name]
names_to_price(cands) == Take(unique_names(cands), MAX_REF_ITEMS)

\* ------------------------------------------------------------ deals
\* the bid compared with the reference itself
over_reference(bid, ref) == bid > ref

\* run_once lines 254-255: bid > ref * (1 - PROFIT_UNDER)
over_target(bid, ref) == bid * 100 > ref * (100 - PROFIT_UNDER_PCT)

\* run_once lines 251-256: the candidate becomes a deal
is_deal(c, rf) ==
    /\ c.name \in DOMAIN rf
    /\ rf[c.name] # 0
    /\ ~over_target(c.bid, rf[c.name])

\* run_once lines 263-276; drop_pct is (ref - bid) / ref * 100, kept as the
\* pair (bid, ref) it is computed from
deal(c, rf) ==
    [id |-> c.lid, item |-> c.name, bid |-> c.bid, ref |-> rf[c.name],
     mins_left |-> c.secs \div 60, stage |-> c.stage_needed]

build_deals(cands, rf) ==
    LET good == SelectSeq(cands, LAMBDA c : is_deal(c, rf)) IN
    [i \in 1..Len(good) |-> deal(good[i], rf)]

\* drop_pct of a is greater than drop_pct of b
more_drop(a, b) == a.bid * b.ref < b.bid * a.ref

\* the sort key (mins_left, -drop_pct) of a is smaller than that of b
key_less(a, b) ==
    \/ a.mins_left < b.mins_left
    \/ a.mins_left = b.mins_left /\ more_drop(a, b)

\* list.sort is stable: x goes after the elements whose key is not greater
RECURSIVE InsertDeal(_, _)
InsertDeal(x, s) ==
    IF s = <<>> THEN <<x>>
    ELSE IF key_less(x, s[Len(s)]) THEN InsertDeal(x, SubSeq(s, 1, Len(s) - 1)) \o <<s[Len(s)]>>
    ELSE s \o <<x>>

RECURSIVE sort_deals(_)
sort_deals(ds) ==
    IF ds = <<>> THEN <<>>
    ELSE InsertDeal(ds[Len(ds)], sort_deals(SubSeq(ds, 1, Len(ds) - 1)))

\* the cap applied before the sort
top_deals_unsorted(ds) ==
    IF TOP_N_GLOBAL # 0 /\ Len(ds) > TOP_N_GLOBAL
    THEN sort_deals(SubSeq(ds, 1, TOP_N_GLOBAL))
    ELSE sort_deals(ds)

\* run_once lines 283-285
top_deals(ds) ==
    IF TOP_N_GLOBAL # 0 /\ Len(ds) > TOP_N_GLOBAL
    THEN SubSeq(sort_deals(ds), 1, TOP_N_GLOBAL)
    ELSE sort_deals(ds)

\* the stage map left as it was loaded
mark_stages_none(m, ds) == m

\* run_once lines 288-289
RECURSIVE mark_stages(_, _)
mark_stages(m, ds) ==
    IF ds = <<>> THEN m
    ELSE mark_stages(StagePut(m, Head(ds).id, Head(ds).stage), Tail(ds))

\* ------------------------------------------------------------ persistence
\* The state file: absent ("missing"), a complete JSON map ("ok"), or left
\* truncated or partly written ("torn").
NoFile == [kind |-> "missing", map |-> EmptyMap]
TornFile == [kind |-> "torn", map |-> EmptyMap]
GoodFile(m) == [kind |-> "ok", map |-> m]

\* load_state: {} when the file is absent, and when open or json.load
\* raises (ioerr: the read fails; a torn file does not parse)
load_state(f, ioerr) ==
    [raised |-> FALSE,
     value |-> IF f.kind = "ok" /\ ~ioerr THEN f.map ELSE EmptyMap]

\* save_state line 55: open(STATE_FILE, "w") truncates the file; when it
\* raises, the exception is swallowed and the file is left as it was
save_open(f, ok) ==
    [raised |-> FALSE, opened |-> ok, file |-> IF ok THEN TornFile ELSE f]

\* json.dump's exception not caught
save_dump_raises(f, m, ok) ==
    [raised |-> ~ok, file |-> IF ok THEN GoodFile(m) ELSE TornFile]

\* save_state line 56: json.dump writes the map; when it raises, the
\* exception is swallowed and the file stays partly written
save_dump(f, m, ok) ==
    [raised |-> FALSE, file |-> IF ok THEN GoodFile(m) ELSE TornFile]

\* ------------------------------------------------------------ notifier
\* send_embeds receives the deals; alerts counts, per (id, stage), the deals
\* handed to it since the process first started.
RECURSIVE count_alerts(_, _)
count_alerts(al, ds) ==
    IF ds = <<>> THEN al
    ELSE count_alerts(
           [p \in DOMAIN al \cup {<<Head(ds).id, Head(ds).stage>>} |->
              (IF p \in DOMAIN al THEN al[p] ELSE 0)
              + (IF p = <<Head(ds).id, Head(ds).stage>> THEN 1 ELSE 0)],
           Tail(ds))

NoAlerts == [p \in {} |-> 0]

\* ------------------------------------------------------------ inputs
(***************************************************************************)
(* What the API may answer.  The auctions: listing 1 ("X") at 590 s and    *)
(* at 290 s with a bid of $80, once with the id as a string; listings on   *)
(* the window borders (300 s, 600 s, 601 s) and with bids at the target    *)
(* and ceiling borders; listings with no name, with a name that is not a   *)
(* mapping, with an expiry timestamp (seconds and milliseconds), with a    *)
(* nested auction and with no time at all.  The answers come in four       *)
(* scenarios, fixed when the process starts: "base" (cursors and the       *)
(* example listing), "filter" (the prefilter's border cases), "rank" (a    *)
(* page longer than the caps) and "median" (buy-now samples of many        *)
(* sizes).                                                                 *)
(***************************************************************************)
X590 == Auc("int", 1, 590, NoStamp, 8000, "A")
X290 == Auc("int", 1, 290, NoStamp, 8000, "A")
Xstr290 == Auc("str", 1, 290, NoStamp, 8000, "A")
Y300 == Auc("int", 2, 300, NoStamp, 8800, "A")
Y600 == Auc("int", 3, 600, NoStamp, 8801, "A")
Z601 == Auc("int", 4, 601, NoStamp, 8000, "A")
Hi == Auc("int", 5, 100, NoStamp, 150001, "A")
NoName == Auc("int", 6, 200, NoStamp, 8000, "")
Bsmall == Auc("int", 7, 200, NoStamp, 40, "B")
Exp == Auc("int", 8, NONE, Stamp(Now0 + 400), 4000, "A")
ExpMs == Auc("int", 9, 0, StampMs(Now0 + 250, 999), 4000, "B")
Nested == [Auc("int", 10, NONE, NoStamp, NONE, "B") EXCEPT
             !.auction_t = "dict", !.auction_ends_at = Stamp(Now0 - 5), !.auction_bid = 4300]
NoTime == Auc("int", 11, NONE, NoStamp, 8000, "A")
NoId == Auc("none", NONE, 290, NoStamp, 8000, "A")
ZeroId == Auc("int", 0, 290, NoStamp, 8000, "A")
NoBid == Auc("int", 12, 290, NoStamp, NONE, "A")
BadItem == [Auc("int", 13, 290, NoStamp, 8000, "A") EXCEPT !.item_t = "str"]
Two20 == Auc("int", 14, 170, NoStamp, 8000, "A")
Two30 == Auc("str", 15, 150, NoStamp, 7000, "A")
NotDict == [Auc("none", NONE, NONE, NoStamp, NONE, "") EXCEPT !.isdict = FALSE]
\* records with more than one time field: time_left and a later expires_at;
\* ends_at and a later end_time; end_time in milliseconds and an earlier
\* ends_at of the nested auction (their bids of $1400 are above any target)
TlWins == Auc("int", 16, 200, Stamp(Now0 + 500), 140000, "B")
EndsAt == [Auc("int", 17, NONE, NoStamp, 140000, "B") EXCEPT
             !.ends_at = Stamp(Now0 + 100), !.end_time = Stamp(Now0 + 500)]
EndTime == [Auc("int", 18, NONE, NoStamp, 140000, "B") EXCEPT
              !.end_time = StampMs(Now0 + 550, 0),
              !.auction_t = "dict", !.auction_ends_at = Stamp(Now0 + 100)]

\* the long page: PadLen listings 101, 102, ... spread over both windows,
\* with bids of $70 to $90; the first MAX_REF_ITEMS are named A, the rest B
PadRec(i) ==
    Auc("int", 100 + i, 45 + 50 * ((i * 7) % 12), NoStamp, 7000 + 500 * (i % 5),
        IF i <= MAX_REF_ITEMS THEN "A" ELSE "B")
PadPage == [i \in 1..PadLen |-> PadRec(i)]

AuctionResponses(w) ==
    CASE w = "base" ->
         { Resp("timeout", "none", <<>>, ""),
           Resp("http_error", "none", <<>>, ""),
           Resp("ok", "data", <<>>, "c0"),
           Resp("ok", "other", <<X290>>, ""),
           Resp("ok", "data", <<Z601>>, "c1"),
           Resp("ok", "data", <<X590>>, ""),
           Resp("ok", "listings", <<X290>>, ""),
           Resp("ok", "results", <<X290, Xstr290>>, ""),
           Resp("ok", "items", <<Y300, X290>>, "") }
      [] w = "filter" ->
         { Resp("timeout", "none", <<>>, ""),
           Resp("http_error", "none", <<>>, ""),
           Resp("ok", "items", <<Y300, Y600, Z601, Hi, NoName, Bsmall>>, ""),
           Resp("ok", "data", <<Exp, ExpMs, Nested, NoTime>>, ""),
           Resp("ok", "data", <<TlWins, EndsAt, EndTime, NoTime>>, ""),
           Resp("ok", "data", <<NotDict, NoId, ZeroId, NoBid, X590, X290>>, ""),
           Resp("ok", "data", <<BadItem, X290>>, "") }
      [] w = "median" ->
         { Resp("http_error", "none", <<>>, ""),
           Resp("ok", "data", <<X290>>, "") }
      [] OTHER ->
         { Resp("timeout", "none", <<>>, ""),
           Resp("http_error", "none", <<>>, ""),
           Resp("ok", "data", <<Y300, Two20, Two30>>, ""),
           Resp("ok", "data", PadPage, "") }

\* Samples of n positive buy-now prices (cents): prices from $1 to $13 in
\* no order and with repeats; prices falling from about $100 with one very
\* high and one very low price; prices close to $100.
Sample(n, t) ==
    [i \in 1..n |->
       CASE t = 1 -> 100 * (1 + ((i * 7) % 13))
         [] t = 2 -> IF i = 1 THEN 900000
                     ELSE IF i = n THEN 1
                     ELSE 9000 + 100 * (n - i)
         [] OTHER -> 10000 + (50 * ((i * 5) % 7))]

Samples == {Sample(n, t) : n \in 0..MaxSample, t \in 1..3}

\* the buy-now listings of an item, by their "price" field (cents)
RefResponses(w) ==
    IF w = "median"
    THEN { Resp("timeout", "none", <<>>, ""),
           Resp("http_error", "none", <<>>, "") }
         \cup {Resp("ok", "data", smp, "") : smp \in Samples}
    ELSE { Resp("timeout", "none", <<>>, ""),
           Resp("http_error", "none", <<>>, ""),
           Resp("ok", "data", <<9000, NONE>>, ""),
           Resp("ok", "data", <<10000, 10000, 10000>>, ""),
           Resp("ok", "listings", <<100, 6000, 5000, 5000, 0, 4000, 900000>>, "") }

\* ------------------------------------------------------------ state
VARIABLES
    pc,            \* where main is: "idle" (about to call run_once), "fetch",
                   \* "refs", "save_open", "save_dump", "send", "sleep",
                   \* "done" (single pass over), "raised" (an exception left
                   \* main), "down" (the process was killed)
    exc,           \* what raised: "fetch" (a listing request) or "record"
    single_pass,   \* SINGLE_PASS
    world,         \* which answers the API gives (fixed at start)
    now,           \* time.time() of the current pass
    passes,        \* run_once calls so far
    file,          \* the state file on disk
    file_at_start, \* the state file as the current pass found it
    load_fault,    \* the current pass could not read the state file
    store_ok,      \* every load_state and save_state so far succeeded
    state,         \* run_once's stage map
    page,          \* fetch_all_auctions: pages requested before this one
    limit_try,     \* index of the limit to try next (auction or reference)
    cursor,        \* fetch_all_auctions: the cursor of the last page
    auctions,      \* the auctions fetched in this pass
    candidates,    \* run_once's candidates
    refs,          \* run_once's refs: item name -> reference price
    name_idx,      \* index in names_to_price of the name being looked up
    lookups,       \* the names ref_price_for_item was called with, in order
    last_resp,     \* what the last request of this pass was answered
    deals,         \* the kept deals of this pass
    sent,          \* the deals of the last send_embeds call
    alerts         \* per (id, stage): deals handed to send_embeds so far

vars == <<pc, exc, single_pass, world, now, passes, file, file_at_start,
          load_fault, store_ok, state, page, limit_try, cursor, auctions,
          candidates, refs, name_idx, lookups, last_resp, deals, sent, alerts>>

config == <<single_pass, world>>
fetch_vars == <<page, limit_try, cursor, auctions>>
ref_vars == <<candidates, refs, name_idx, lookups>>
store_vars == <<file, file_at_start, load_fault, store_ok>>

NoRefs == [n \in {} |-> 0]

\* no request made yet in this pass
NoResp == [kind |-> "none", status |-> "none", key |-> "none", rows |-> 0, sample |-> <<>>]

\* the answer to a request: its status, the key its list is under and the
\* list's length; sample is the "price" fields of a buy-now answer
Seen(kind, resp) ==
    [kind |-> kind, status |-> resp.status, key |-> resp.key, rows |-> Len(resp.list),
     sample |-> IF kind = "ref" THEN resp.list ELSE <<>>]

InitWorld(w) ==
    /\ pc = "idle" /\ exc = "none"
    /\ single_pass \in BOOLEAN
    /\ world = w
    /\ now = Now0 /\ passes = 0
    /\ file = NoFile /\ file_at_start = NoFile
    /\ load_fault = FALSE /\ store_ok = TRUE
    /\ state = EmptyMap
    /\ page = 0 /\ limit_try = 1 /\ cursor = "" /\ auctions = <<>>
    /\ candidates = <<>> /\ refs = NoRefs /\ name_idx = 0 /\ lookups = <<>>
    /\ last_resp = NoResp
    /\ deals = <<>> /\ sent = <<>> /\ alerts = NoAlerts

Init == InitWorld("base")
InitFilter == InitWorld("filter")
InitRank == InitWorld("rank")
InitMedian == InitWorld("median")

\* run_once's local variables do not outlive the call
LocalsReset ==
    /\ state' = EmptyMap
    /\ page' = 0 /\ limit_try' = 1 /\ cursor' = "" /\ auctions' = <<>>
    /\ candidates' = <<>> /\ refs' = NoRefs /\ name_idx' = 0 /\ lookups' = <<>>
    /\ last_resp' = NoResp
    /\ deals' = <<>>

\* run_once returns to main: lines 297 and 299-300
AfterPass == IF single_pass THEN "done" ELSE "sleep"

PassBound == IF world = "base" THEN MaxPasses ELSE MaxPassesWide

\* run_once line 195, called from main: a new pass starts with load_state
Load ==
    /\ pc = "idle"
    /\ passes < PassBound
    /\ \E ioerr \in (IF file.kind = "ok" THEN BOOLEAN ELSE {FALSE}) :
         /\ load_fault' = (ioerr \/ file.kind = "torn")
         /\ store_ok' = (store_ok /\ ~ioerr /\ file.kind # "torn")
         /\ IF load_state(file, ioerr).raised
            THEN pc' = "raised" /\ exc' = "load" /\ state' = state
            ELSE pc' = "fetch" /\ exc' = exc /\ state' = load_state(file, ioerr).value
    /\ passes' = passes + 1
    /\ file_at_start' = file
    /\ UNCHANGED <<config, now, file, fetch_vars, ref_vars, last_resp, deals,
                   sent, alerts>>

\* fetch_all_auctions has returned aucs: run_once lines 197-237
Prefiltered(aucs) ==
    LET pf == prefilter(aucs, state, now) IN
    IF aucs = <<>>
    THEN pc' = AfterPass /\ exc' = exc /\ UNCHANGED ref_vars
    ELSE IF pf.raised
    THEN pc' = "raised" /\ exc' = "record" /\ UNCHANGED ref_vars
    ELSE IF pf.candidates = <<>>
    THEN pc' = AfterPass /\ exc' = exc /\ UNCHANGED ref_vars
    ELSE /\ pc' = "refs" /\ exc' = exc
         /\ candidates' = pf.candidates
         /\ name_idx' = 1
         /\ lookups' = <<names_to_price(pf.candidates)[1]>>
         /\ UNCHANGED refs

\* fetch_all_auctions lines 136 and 148-149: after an accepted page, one
\* more page is requested when it carried a cursor and pages are left
more_pages_without_cursor(cur, pg) == pg + 1 < PAGES

more_pages(cur, pg) == cur # "" /\ pg + 1 < PAGES

\* lines 118 and 137: the loop over the limits has another limit to try
more_limits(i, limits) == i < Len(limits)

\* One request of fetch_all_auctions (lines 136-149) and, when it was the
\* last one, the prefilter of run_once.
FetchGet ==
    /\ pc = "fetch"
    /\ \E resp \in AuctionResponses(world) :
         LET data == get(resp).data
             batch == parse_list(data)
         IN
         /\ last_resp' = Seen("auction", resp)
         /\ IF get(resp).raised
            THEN /\ pc' = "raised" /\ exc' = "fetch"
                 /\ UNCHANGED <<fetch_vars, ref_vars>>
            ELSE IF batch # <<>>
            THEN /\ auctions' = auctions \o batch
                 /\ cursor' = data.cursor
                 /\ IF more_pages(data.cursor, page)
                    THEN /\ page' = page + 1 /\ limit_try' = 1
                         /\ pc' = pc /\ exc' = exc /\ UNCHANGED ref_vars
                    ELSE /\ page' = page /\ limit_try' = 1
                         /\ Prefiltered(auctions \o batch)
            ELSE IF more_limits(limit_try, AuctionLimits)
            THEN /\ limit_try' = limit_try + 1
                 /\ pc' = pc /\ exc' = exc
                 /\ UNCHANGED <<page, cursor, auctions, ref_vars>>
            ELSE /\ limit_try' = 1
                 /\ UNCHANGED <<page, cursor, auctions>>
                 /\ Prefiltered(auctions)
    /\ UNCHANGED <<config, now, passes, store_vars, state, deals, sent, alerts>>

RefPut(rf, name, rp) == [n \in DOMAIN rf \cup {name} |-> IF n = name THEN rp ELSE rf[n]]

\* the deals sent before the stage map is saved
Priced_notify_first(rf) ==
    LET found == build_deals(candidates, rf)
        kept == top_deals(found)
    IN IF found = <<>>
       THEN pc' = AfterPass /\ UNCHANGED <<deals, state>>
       ELSE /\ deals' = kept
            /\ state' = mark_stages(state, kept)
            /\ pc' = "send"

\* save_state called whether or not a deal was found
Priced_always_saves(rf) ==
    LET found == build_deals(candidates, rf)
        kept == top_deals(found)
    IN /\ deals' = kept
       /\ state' = mark_stages(state, kept)
       /\ pc' = "save_open"

\* Every name is priced: run_once lines 249-290, up to the call of save_state
Priced(rf) ==
    LET found == build_deals(candidates, rf)
        kept == top_deals(found)
    IN IF found = <<>>
       THEN pc' = AfterPass /\ UNCHANGED <<deals, state>>
       ELSE /\ deals' = kept
            /\ state' = mark_stages(state, kept)
            /\ pc' = "save_open"

\* ref_price_for_item has returned for the current name: the loop of
\* run_once lines 245-247 goes on with the next name, or ends
NextName(rf) ==
    /\ refs' = rf
    /\ limit_try' = 1
    /\ IF name_idx < Len(names_to_price(candidates))
       THEN /\ name_idx' = name_idx + 1
            /\ lookups' = Append(lookups, names_to_price(candidates)[name_idx + 1])
            /\ pc' = pc
            /\ UNCHANGED <<deals, state>>
       ELSE /\ UNCHANGED <<name_idx, lookups>>
            /\ Priced(rf)

\* One request of ref_price_for_item (lines 118-130) for the current name
\* and, when it was the last one of the pass, the rest of run_once up to
\* the call of save_state.
RefGet ==
    /\ pc = "refs"
    /\ \E resp \in RefResponses(world) :
         LET rp == ref_attempt(get(resp).data) IN
         /\ last_resp' = Seen("ref", resp)
         /\ IF get(resp).raised
            THEN /\ pc' = "raised" /\ exc' = "fetch"
                 /\ UNCHANGED <<refs, limit_try, name_idx, lookups, deals, state>>
            ELSE /\ exc' = exc
                 /\ IF rp # NONE
                    THEN NextName(RefPut(refs, names_to_price(candidates)[name_idx], rp))
                    ELSE IF more_limits(limit_try, RefLimits)
                    THEN /\ limit_try' = limit_try + 1
                         /\ pc' = pc
                         /\ UNCHANGED <<refs, name_idx, lookups, deals, state>>
                    ELSE NextName(refs)
    /\ UNCHANGED <<config, now, passes, store_vars, page, cursor, auctions,
                   candidates, sent, alerts>>

\* save_state line 55
SaveOpen ==
    /\ pc = "save_open"
    /\ \E ok \in BOOLEAN :
         /\ file' = save_open(file, ok).file
         /\ store_ok' = (store_ok /\ ok)
         /\ IF save_open(file, ok).raised
            THEN pc' = "raised" /\ exc' = "save"
            ELSE /\ exc' = exc
                 /\ pc' = IF save_open(file, ok).opened THEN "save_dump" ELSE "send"
    /\ UNCHANGED <<config, now, passes, file_at_start, load_fault, state,
                   fetch_vars, ref_vars, last_resp, deals, sent, alerts>>

\* save_state line 56
SaveDump ==
    /\ pc = "save_dump"
    /\ \E ok \in BOOLEAN :
         /\ file' = save_dump(file, state, ok).file
         /\ store_ok' = (store_ok /\ ok)
         /\ IF save_dump(file, state, ok).raised
            THEN pc' = "raised" /\ exc' = "save"
            ELSE pc' = "send" /\ exc' = exc
    /\ UNCHANGED <<config, now, passes, file_at_start, load_fault, state,
                   fetch_vars, ref_vars, last_resp, deals, sent, alerts>>

\* run_once line 292: send_embeds(deals), then run_once returns
Send ==
    /\ pc = "send"
    /\ sent' = deals
    /\ alerts' = count_alerts(alerts, deals)
    /\ pc' = AfterPass
    /\ UNCHANGED <<exc, config, now, passes, store_vars, state, fetch_vars,
                   ref_vars, last_resp, deals>>

\* main line 300: time.sleep(INTERVAL_S), then the next pass
Sleep ==
    /\ pc = "sleep"
    /\ passes < PassBound
    /\ pc' = "idle"
    /\ now' = now + INTERVAL_S
    /\ LocalsReset
    /\ UNCHANGED <<exc, config, passes, store_vars, sent, alerts>>

\* The process is killed at any point of a pass.
Crash ==
    /\ pc \in {"fetch", "refs", "save_open", "save_dump", "send", "sleep"}
    /\ pc' = "down"
    /\ store_ok' = (store_ok /\ pc # "save_dump")
    /\ LocalsReset
    /\ UNCHANGED <<exc, config, now, passes, file, file_at_start, load_fault,
                   sent, alerts>>

\* The process is started again: main calls run_once.
Restart ==
    /\ pc = "down"
    /\ passes < PassBound
    /\ pc' = "idle"
    /\ now' = now + INTERVAL_S
    /\ UNCHANGED <<exc, config, passes, store_vars, state, fetch_vars, ref_vars,
                   last_resp, deals, sent, alerts>>

Next ==
    \/ Load
    \/ FetchGet
    \/ RefGet
    \/ SaveOpen
    \/ SaveDump
    \/ Send
    \/ Sleep
    \/ Crash
    \/ Restart

Spec == Init /\ [][Next]_vars
SpecFilter == InitFilter /\ [][Next]_vars
SpecRank == InitRank /\ [][Next]_vars
SpecMedian == InitMedian /\ [][Next]_vars

\* ------------------------------------------------------------ properties
\* the stage map run_once started the current pass with
Loaded == load_state(file_at_start, load_fault).value
\* the pricing loop of the current pass is over
PricedPcs == {"save_open", "save_dump", "send", "sleep", "done"}
StageRank(st) == CASE st = "unseen" -> 0 [] st = STAGE_10M -> 1 [] st = STAGE_5M -> 2

\* C1: while every load_state and save_state has succeeded, no (listing id,
\* stage) pair has been handed to the notifier more than once since the
\* process started, within one pass or across passes.
C1_AlertAtMostOnce ==
    store_ok => \A p \in DOMAIN alerts : alerts[p] <= 1

\* C2: the step of a pass that marks the stages never lowers the stage
\* recorded for a listing id (t5 is never overwritten with t10) and never
\* removes an entry.
C2_StageOnlyForward ==
    [][(pc = "refs" /\ pc' # "down") =>
          \A id \in DOMAIN state :
             /\ id \in DOMAIN state'
             /\ StageRank(state'[id]) >= StageRank(state[id])]_vars

\* C4: no failed listing request (status other than 200, timeout or network
\* failure, all limits exhausted) ends main with an exception.
C4_FetchErrorNeverFatal ==
    ~(pc = "raised" /\ exc = "fetch")

\* C5: whenever the process is killed during save_state (the store having
\* worked until then), the state file then loads as the complete map the
\* pass started with or as the complete map the pass was saving.
C5_CrashKeepsStateFile ==
    [][(pc \in {"save_open", "save_dump"} /\ store_ok /\ pc' = "down") =>
          load_state(file', FALSE).value \in {load_state(file_at_start, FALSE).value, state}]_vars

\* the windows of the stages, in seconds remaining
InT5Window(secs) == secs \in 0..300
InT10Window(secs) == secs \in 301..600

\* the auction record is well formed and the prefilter's later steps let it pass
Eligible(L) ==
    /\ L.isdict /\ lid_of(L) # NONE
    /\ current_bid_usd(L) # NONE /\ current_bid_usd(L) > 0
    /\ current_bid_usd(L) <= MAX_BID_USD * HalfPerUsd
    /\ L.item_t = "dict" /\ L.name # ""

\* the candidate's bid is at or below the target of the reference rf holds
AtOrBelowTarget(c, rf) ==
    /\ c.name \in DOMAIN rf
    /\ c.bid * 100 <= rf[c.name] * (100 - PROFIT_UNDER_PCT)

\* candidates (by position) that rank before position i among those at or
\* below target: fewer minutes left, or as many and a larger drop, or the
\* same key and an earlier position
AheadOf(i, rf) ==
    {j \in 1..Len(candidates) :
        /\ j # i
        /\ AtOrBelowTarget(candidates[j], rf)
        /\ LET a == candidates[j]
               b == candidates[i]
               same == /\ a.secs \div 60 = b.secs \div 60
                       /\ a.bid * rf[b.name] = b.bid * rf[a.name]
           IN \/ a.secs \div 60 < b.secs \div 60
              \/ /\ a.secs \div 60 = b.secs \div 60
                 /\ a.bid * rf[b.name] < b.bid * rf[a.name]
              \/ same /\ j < i}

\* C3: in a pass that started with listing id at t5, no auction of that id
\* with 0..300 s left becomes a candidate and no deal (id, t5) is kept; in a
\* pass that started with the id at t10, an eligible auction of that id with
\* 0..300 s left is a candidate at stage t5, and when its bid is at or below
\* the target and fewer than TOP_N_GLOBAL deals rank ahead of it, the deal
\* (id, t5) is kept and handed to the notifier.
C3_DedupByComputedStage ==
    [][/\ (pc = "fetch" /\ pc' \in {"refs", "sleep", "done"}) =>
            \A i \in 1..Len(auctions') :
               LET L == auctions'[i] IN
               (L.isdict /\ lid_of(L) # NONE /\ seconds_left(L, now) # NONE
                  /\ InT5Window(seconds_left(L, now))) =>
                  /\ StageGet(state, lid_of(L)) = STAGE_5M =>
                        \A k \in 1..Len(candidates') : candidates'[k].L # L
                  /\ (StageGet(state, lid_of(L)) = STAGE_10M /\ Eligible(L)) =>
                        \E k \in 1..Len(candidates') :
                           /\ candidates'[k].L = L
                           /\ candidates'[k].stage_needed = STAGE_5M
       /\ (pc = "refs" /\ pc' \in PricedPcs) =>
            /\ \A k \in 1..Len(deals') :
                  ~(deals'[k].stage = STAGE_5M /\ StageGet(state, deals'[k].id) = STAGE_5M)
            /\ \A i \in 1..Len(candidates) :
                  (/\ StageGet(state, candidates[i].lid) = STAGE_10M
                   /\ candidates[i].stage_needed = STAGE_5M
                   /\ AtOrBelowTarget(candidates[i], refs')
                   /\ Cardinality(AheadOf(i, refs')) < TOP_N_GLOBAL) =>
                     \E k \in 1..Len(deals') :
                        /\ deals'[k].id = candidates[i].lid
                        /\ deals'[k].stage = STAGE_5M
       /\ (pc = "send" /\ pc' # "down") => sent' = deals
      ]_vars

\* C3 witness: a pass that started with a listing at t10 is about to hand
\* its t5 deal to the notifier.
C3_Witness ==
    /\ pc = "send"
    /\ \E k \in 1..Len(deals) :
          /\ deals[k].stage = STAGE_5M
          /\ StageGet(Loaded, deals[k].id) = STAGE_10M

\* C6: a pass whose load_state failed (file missing, unreadable or torn)
\* works on the empty map; no step of load_state or save_state raises; a
\* save_state step that is not interrupted goes on to send_embeds with the
\* kept deals untouched, and send_embeds receives them and run_once returns.
C6_PersistenceNeverFatal ==
    [][/\ exc' \notin {"load", "save"}
       /\ (pc = "idle" /\ pc' # "idle" /\ (load_fault' \/ file.kind # "ok")) =>
             (pc' = "fetch" /\ state' = EmptyMap)
       /\ (pc = "save_open" /\ pc' # "down") =>
             (pc' \in {"save_dump", "send"} /\ deals' = deals /\ deals # <<>>)
       /\ (pc = "save_dump" /\ pc' # "down") => (pc' = "send" /\ deals' = deals)
       /\ (pc = "send" /\ pc' # "down") => (sent' = deals /\ pc' = AfterPass)
      ]_vars

\* C6 witness: a pass that found the state file torn and whose save_state
\* failed has delivered its deals and returned.
C6_Witness ==
    /\ pc \in {"sleep", "done"}
    /\ load_fault
    /\ file.kind # "ok"
    /\ deals # <<>> /\ sent = deals

InWindowOf(secs, stage) ==
    \/ stage = STAGE_5M /\ InT5Window(secs)
    \/ stage = STAGE_10M /\ InT10Window(secs)

\* the deal d was built from the candidate c
DealOf(d, c) ==
    /\ d.id = c.lid /\ d.item = c.name /\ d.bid = c.bid
    /\ d.stage = c.stage_needed /\ d.mins_left = c.secs \div 60

\* C7: once the auctions of a pass are prefiltered, every candidate carries
\* the seconds left of its auction and the stage of the window they fall in
\* (0..300 s: t5, 301..600 s: t10), and no auction with seconds left outside
\* both windows is a candidate; every kept deal comes from a candidate, with
\* its stage; and every stage the pass wrote to the stage map is the stage of
\* a kept deal for that id.
C7_StageIsWindowOfSeconds ==
    (pc \in {"refs"} \cup PricedPcs) =>
       /\ \A k \in 1..Len(candidates) :
             /\ candidates[k].secs = seconds_left(candidates[k].L, now)
             /\ InWindowOf(candidates[k].secs, candidates[k].stage_needed)
       /\ \A i \in 1..Len(auctions) :
             (/\ auctions[i].isdict
              /\ seconds_left(auctions[i], now) # NONE
              /\ ~InT5Window(seconds_left(auctions[i], now))
              /\ ~InT10Window(seconds_left(auctions[i], now))) =>
                \A k \in 1..Len(candidates) : candidates[k].L # auctions[i]
       /\ \A k \in 1..Len(deals) :
             \E j \in 1..Len(candidates) :
                /\ DealOf(deals[k], candidates[j])
                /\ InWindowOf(candidates[j].secs, deals[k].stage)
       /\ \A id \in DOMAIN state :
             StageGet(Loaded, id) # state[id] =>
                \E k \in 1..Len(deals) : deals[k].id = id /\ deals[k].stage = state[id]

\* C7 witness: the deals about to be sent hold a t5 deal of an auction with
\* exactly 300 s left, and an auction with exactly 600 s left is a t10
\* candidate, while an auction with 601 s left was fetched.
C7_Witness ==
    /\ pc = "send"
    /\ \E k \in 1..Len(deals), j \in 1..Len(candidates) :
          /\ DealOf(deals[k], candidates[j])
          /\ candidates[j].secs = 300 /\ deals[k].stage = STAGE_5M
    /\ \E j \in 1..Len(candidates) :
          candidates[j].secs = 600 /\ candidates[j].stage_needed = STAGE_10M
    /\ \E i \in 1..Len(auctions) : seconds_left(auctions[i], now) = 601

\* C8: every kept deal has a bid that is positive, at most MAX_BID_USD and
\* at most reference * (1 - PROFIT_UNDER), for the reference price that was
\* looked up for its item name in this pass; a candidate whose bid exceeds
\* the target, or whose item name has no reference, yields no deal.
C8_DealsAtOrBelowTarget ==
    (pc \in PricedPcs) =>
       /\ \A k \in 1..Len(deals) :
             /\ deals[k].bid > 0
             /\ deals[k].bid <= MAX_BID_USD * HalfPerUsd
             /\ deals[k].item \in DOMAIN refs
             /\ deals[k].item \in Range(lookups)
             /\ deals[k].ref = refs[deals[k].item]
             /\ deals[k].bid * 100 <= deals[k].ref * (100 - PROFIT_UNDER_PCT)
             /\ \E j \in 1..Len(candidates) :
                   /\ DealOf(deals[k], candidates[j])
                   /\ candidates[j].bid = current_bid_usd(candidates[j].L)
       /\ \A j \in 1..Len(candidates) :
             ~AtOrBelowTarget(candidates[j], refs) =>
                \A k \in 1..Len(deals) : ~DealOf(deals[k], candidates[j])

\* C8 witness: a deal whose bid is exactly the target is about to be sent,
\* while a candidate one cent above the target and a candidate whose item
\* has no reference are left out.
C8_Witness ==
    /\ pc = "send"
    /\ \E k \in 1..Len(deals) :
          deals[k].bid * 100 = deals[k].ref * (100 - PROFIT_UNDER_PCT)
    /\ \E j \in 1..Len(candidates) :
          /\ candidates[j].name \in DOMAIN refs
          /\ candidates[j].bid * 100 > refs[candidates[j].name] * (100 - PROFIT_UNDER_PCT)
    /\ \E j \in 1..Len(candidates) : candidates[j].name \notin DOMAIN refs

\* the distinct elements of s, in the order of their first occurrence
RECURSIVE Distinct(_)
Distinct(s) ==
    IF s = <<>> THEN <<>>
    ELSE LET front == Distinct(SubSeq(s, 1, Len(s) - 1)) IN
         IF s[Len(s)] \in Range(front) THEN front ELSE Append(front, s[Len(s)])

\* C9: when the pricing loop of a pass is over, the names ref_price_for_item
\* was called with are the first MAX_REF_ITEMS distinct item names of the
\* candidates in encounter order, each once; so with at most MAX_REF_ITEMS
\* distinct names every candidate's name was looked up.
C9_LooksUpDistinctNames ==
    (pc \in PricedPcs /\ candidates # <<>>) =>
       /\ lookups = Take(Distinct([i \in 1..Len(candidates) |-> candidates[i].name]),
                         MAX_REF_ITEMS)
       /\ Cardinality({candidates[i].name : i \in 1..Len(candidates)}) <= MAX_REF_ITEMS =>
             \A i \in 1..Len(candidates) : candidates[i].name \in Range(lookups)

\* a ranks strictly before b: fewer minutes left, or as many minutes and a
\* larger drop (ref - bid) / ref
RanksBefore(a, b) ==
    \/ a.mins_left < b.mins_left
    \/ /\ a.mins_left = b.mins_left
       /\ (a.ref - a.bid) * b.ref > (b.ref - b.bid) * a.ref

Occurrences(s, x) == Cardinality({i \in 1..Len(s) : s[i] = x})

\* the deals of the candidates, before ranking
FoundDeals == build_deals(candidates, refs)

\* the ranking example: (minutes, drop %) = (5, 10), (2, 30), (2, 20)
ExampleDeal(id, mins, bid) ==
    [id |-> id, item |-> "A", bid |-> bid * HalfPerUsd, ref |-> 100 * HalfPerUsd,
     mins_left |-> mins, stage |-> STAGE_5M]
ExampleDeals == <<ExampleDeal(1, 5, 90), ExampleDeal(2, 2, 70), ExampleDeal(3, 2, 80)>>

\* C10: the kept deals are min(TOP_N_GLOBAL, found) of the found deals, in
\* ranking order; no found deal that was dropped ranks strictly before a
\* kept one; the notifier receives the kept deals in that order; and the
\* example (5, 10), (2, 30), (2, 20) is ranked (2, 30), (2, 20), (5, 10).
C10_KeepsTopRanked ==
    /\ (pc \in {"save_open", "save_dump", "send"}) =>
          /\ Len(deals) = Min(TOP_N_GLOBAL, Len(FoundDeals))
          /\ \A i, j \in 1..Len(deals) : i < j => ~RanksBefore(deals[j], deals[i])
          /\ \A k \in 1..Len(deals) :
                Occurrences(deals, deals[k]) <= Occurrences(FoundDeals, deals[k])
          /\ \A f \in 1..Len(FoundDeals) :
                Occurrences(deals, FoundDeals[f]) < Occurrences(FoundDeals, FoundDeals[f]) =>
                   \A k \in 1..Len(deals) : ~RanksBefore(FoundDeals[f], deals[k])
    /\ (pc \in {"sleep", "done"} /\ deals # <<>>) =>
          (sent = deals /\ Len(sent) <= TOP_N_GLOBAL)
    /\ top_deals(ExampleDeals) =
          <<ExampleDeal(2, 2, 70), ExampleDeal(3, 2, 80), ExampleDeal(1, 5, 90)>>

\* C10 witness: more than TOP_N_GLOBAL deals were found, TOP_N_GLOBAL are
\* about to be sent, the first found deal was dropped and a kept deal was
\* found after it.
C10_Witness ==
    /\ pc = "send"
    /\ Len(FoundDeals) > TOP_N_GLOBAL
    /\ Len(deals) = TOP_N_GLOBAL
    /\ FoundDeals[1] \notin Range(deals)
    /\ \E k \in 1..Len(deals) : RanksBefore(deals[k], FoundDeals[1])

\* the stage of the last deal of ds for listing id
LastStageOf(ds, id) ==
    ds[CHOOSE k \in 1..Len(ds) :
         /\ ds[k].id = id
         /\ \A j \in (k + 1)..Len(ds) : ds[j].id # id].stage

DealIds(ds) == {ds[k].id : k \in 1..Len(ds)}

\* C11: in a pass that keeps at least one deal the order is mark, persist,
\* notify.  When the pricing loop ends with deals, the stage map holds, for
\* every kept deal's id, the stage written last for it (whatever was stored
\* before) and save_state is what comes next; from then on the map does not
\* change while the pass lasts; what save_state writes is that map; the
\* notifier is reached only from save_state, after its open was attempted;
\* and deals are handed to the notifier at no other step.  A pass whose
\* pricing loop ends with no deal neither saves nor notifies.
C11_MarkPersistNotify ==
    [][ /\ (pc = "refs" /\ pc' \notin {"refs", "raised", "down"})
             => IF deals' # <<>>
                THEN /\ pc' = "save_open"
                     /\ \A id \in DealIds(deals') :
                          StageGet(state', id) = LastStageOf(deals', id)
                     /\ sent' = sent /\ alerts' = alerts /\ file' = file
                ELSE pc' \in {"sleep", "done"} /\ sent' = sent /\ file' = file
        /\ (pc \in {"save_open", "save_dump", "send"} /\ pc' # "down")
             => state' = state /\ deals' = deals
        /\ (pc = "save_dump" /\ file'.kind = "ok") => file'.map = state
        /\ (pc' = "send" /\ pc # "send") => pc \in {"save_open", "save_dump"}
        /\ (pc' = "save_dump" /\ pc # "save_dump") => pc = "save_open"
        /\ (sent' # sent \/ alerts' # alerts)
             => pc = "send" /\ sent' = deals /\ deals # <<>>
      ]_vars

\* a pass is about to notify a deal whose stage replaced the stored one,
\* with the new map on disk
C11_Witness ==
    /\ pc = "send" /\ deals # <<>> /\ sent # deals
    /\ file = GoodFile(state)
    /\ \E k \in 1..Len(deals) :
         /\ StageGet(Loaded, deals[k].id) = STAGE_10M
         /\ deals[k].stage = STAGE_5M
         /\ StageGet(state, deals[k].id) = STAGE_5M

\* the answer carries a non-empty list under a key _parse_list reads
Yields(lr) ==
    /\ lr.status = "ok"
    /\ lr.key \in {"data", "listings", "results", "items"}
    /\ lr.rows > 0

\* requests of the global fetch made before the next one, were every page
\* to use all its limits
FetchRank == Len(AuctionLimits) * page + limit_try

\* C12: the global fetch is bounded.  Every request is for one of PAGES
\* pages and is one of the three limit attempts of that page, and each
\* request moves on: to the next limit of the same page after an answer
\* that yields nothing, or to the first limit of the next page after an
\* answer that yields rows and carries a cursor.  The fetch is over once the
\* third limit of a page yields nothing, or the accepted answer carries no
\* cursor, or the last page is accepted.
C12_FetchBounded ==
    [][ pc = "fetch" =>
          /\ page \in 0..(PAGES - 1)
          /\ limit_try \in 1..3
          /\ AuctionLimits[limit_try] = <<PAGE_LIMIT, 25, 10>>[limit_try]
          /\ FetchRank <= PAGES * 3
          /\ pc' = "fetch" =>
               /\ FetchRank' > FetchRank
               /\ \/ /\ ~Yields(last_resp')
                     /\ page' = page /\ limit_try' = limit_try + 1
                     /\ auctions' = auctions
                  \/ /\ Yields(last_resp') /\ cursor' # ""
                     /\ page' = page + 1 /\ limit_try' = 1
          /\ (~Yields(last_resp') /\ limit_try = 3) => pc' # "fetch"
          /\ (Yields(last_resp') /\ cursor' = "") => pc' # "fetch"
          /\ (Yields(last_resp') /\ page = PAGES - 1) => pc' # "fetch"
      ]_vars

\* the third limit of the last page is about to be requested
C12_Witness ==
    /\ pc = "fetch" /\ page = PAGES - 1 /\ limit_try = 3
    /\ Len(auctions) = PAGES - 1

\* a buy-now answer with at least MIN_SAMPLES positive prices
Prices(lr) ==
    /\ lr.status = "ok"
    /\ lr.key \in {"data", "listings", "results", "items"}
    /\ Cardinality({i \in 1..Len(lr.sample) : lr.sample[i] > 0}) >= MIN_SAMPLES

\* the answer is one the fetch accepts: rows for an auction page, a
\* reference price for a buy-now lookup
Usable(lr) == IF lr.kind = "ref" THEN Prices(lr) ELSE Yields(lr)

\* a request is made in this step, for the limit at index limit_try
Requests == pc \in {"fetch", "refs"} /\ pc' # "down"

\* C13 as stated: a limit after the first is requested only when the
\* previous answer of that fetch was not an HTTP 200.
C13_SmallerLimitOnlyAfterNon200 ==
    [][ (Requests /\ limit_try > 1) => last_resp.status # "ok" ]_vars

\* C13, amended: the limits of a fetch are requested in descending order,
\* starting with the largest; a limit after the first is requested only
\* when the previous answer of that fetch was not usable (not an HTTP 200,
\* or a 200 with an empty list for an auction page, or with fewer than
\* MIN_SAMPLES positive prices for a buy-now lookup), and a usable answer
\* ends the fetch, as does the third limit: the request after it is the
\* first of another fetch.
C13_SmallerLimitOnlyAfterUnusable ==
    [][ Requests =>
          /\ limit_try \in 1..3
          /\ limit_try > 1 =>
               /\ ~Usable(last_resp)
               /\ last_resp.kind = (IF pc = "fetch" THEN "auction" ELSE "ref")
               /\ AuctionLimits[limit_try] < AuctionLimits[limit_try - 1]
               /\ RefLimits[limit_try] < RefLimits[limit_try - 1]
          /\ (last_resp.kind # "none" /\ Usable(last_resp)) => limit_try = 1
          /\ IF pc' = pc
             THEN limit_try' = (IF Usable(last_resp') \/ limit_try = 3
                                THEN 1 ELSE limit_try + 1)
             ELSE TRUE
      ]_vars

\* the second limit of a buy-now lookup is about to be requested after an
\* HTTP 200 that held too few prices, and of an auction page after an HTTP
\* 200 with an empty list
C13_Witness ==
    /\ limit_try = 2 /\ last_resp.status = "ok" /\ ~Usable(last_resp)
    /\ pc = "refs" /\ last_resp.kind = "ref" /\ last_resp.rows > 0

\* the positive prices of a buy-now answer, in half cents
SampleOf(lr) ==
    LET pos == SelectSeq(lr.sample, LAMBDA v : v > 0) IN
    [i \in 1..Len(pos) |-> HalfPerCent * pos[i]]

\* a buy-now answer whose list ref_price_for_item reads
ReadRef(lr) ==
    /\ lr.kind = "ref" /\ lr.status = "ok"
    /\ lr.key \in {"data", "listings", "results", "items"}

\* the k-th smallest element of s, found by counting
Kth(s, k) ==
    CHOOSE x \in Range(s) :
      /\ Cardinality({i \in DOMAIN s : s[i] < x}) < k
      /\ Cardinality({i \in DOMAIN s : s[i] <= x}) >= k

\* the median of the lo-th to the hi-th smallest elements of s
MidOf(s, lo, hi) ==
    IF (hi - lo) % 2 = 0
    THEN Kth(s, (lo + hi) \div 2)
    ELSE (Kth(s, (lo + hi - 1) \div 2) + Kth(s, (lo + hi + 1) \div 2)) \div 2

\* the reference operator: absent below MIN_SAMPLES prices; the median of
\* all for 3 to 5 prices; for n >= 6 the median of what is left when the
\* max(1, floor(n / 10)) smallest and as many largest are dropped
ReferenceMedian(s) ==
    IF Len(s) < MIN_SAMPLES THEN NONE
    ELSE IF Len(s) < 6 THEN MidOf(s, 1, Len(s))
    ELSE MidOf(s, 1 + Max(1, Len(s) \div 10), Len(s) - Max(1, Len(s) \div 10))

\* the name the last buy-now answer was for: the loop has moved on to the
\* next name when it is back at the first limit
AskedName ==
    lookups[IF pc = "refs" /\ limit_try = 1 THEN Len(lookups) - 1 ELSE Len(lookups)]

\* the lookups of the pass before the one the last answer was for
EarlierNames ==
    {lookups[i] : i \in 1..((IF pc = "refs" /\ limit_try = 1
                             THEN Len(lookups) - 1 ELSE Len(lookups)) - 1)}

\* C14: trimmed_median agrees with the reference operator on every sample
\* of positive prices, and what a buy-now lookup stores as the item's
\* reference price is the reference operator's value of the prices it was
\* answered: when that value is absent nothing is stored and, unless that
\* was the third limit, the next limit is tried.
C14_TrimmedMedianAsReference ==
    ReadRef(last_resp) =>
      \A smp \in {SampleOf(last_resp)} :
        \A want \in {ReferenceMedian(smp)} :
          /\ trimmed_median(smp) = want
          /\ IF want = NONE
             THEN AskedName \in DOMAIN refs => AskedName \in EarlierNames
             ELSE /\ AskedName \in DOMAIN refs /\ refs[AskedName] = want
                  /\ pc = "refs" => limit_try = 1

\* a lookup answered at least 20 prices (two dropped from each end), of an
\* even count and not all equal, has stored their reference price
C14_Witness ==
    /\ ReadRef(last_resp) /\ pc \in PricedPcs
    /\ Len(SampleOf(last_resp)) >= 20 /\ Len(SampleOf(last_resp)) % 2 = 0
    /\ "A" \in DOMAIN refs /\ refs["A"] = ReferenceMedian(SampleOf(last_resp))
    /\ Kth(SampleOf(last_resp), 2) # Kth(SampleOf(last_resp), 3)
    /\ Kth(SampleOf(last_resp), 10) # Kth(SampleOf(last_resp), 11)

\* C20: trimming never removes every price.  For a sample of at least
\* MIN_SAMPLES prices what is left after the trim is not empty (fewer than
\* all only from six prices on), and trimmed_median is a value between the
\* smallest and the largest price of the sample; so trimmed_median is
\* absent exactly for samples of fewer than MIN_SAMPLES prices, and the
\* reference price a lookup stores lies within the prices it was answered.
C20_TrimKeepsMiddle ==
    ReadRef(last_resp) =>
      \A smp \in {SampleOf(last_resp)} :
        \A got \in {trimmed_median(smp)} :
          /\ (got = NONE) <=> (Len(smp) < MIN_SAMPLES)
          /\ Len(smp) >= MIN_SAMPLES =>
               /\ Len(trim(sorted(smp))) >= 1
               /\ Len(trim(sorted(smp))) <= Len(smp)
               /\ (Len(trim(sorted(smp))) < Len(smp)) <=> (Len(smp) >= 6)
               /\ \E i \in DOMAIN smp : smp[i] <= got
               /\ \E i \in DOMAIN smp : smp[i] >= got
               /\ AskedName \in DOMAIN refs
               /\ \E i \in DOMAIN smp : smp[i] <= refs[AskedName]
               /\ \E i \in DOMAIN smp : smp[i] >= refs[AskedName]

\* a lookup answered six prices, not all equal, of which the trim leaves
\* four, has stored a reference price
C20_Witness ==
    /\ ReadRef(last_resp) /\ Len(SampleOf(last_resp)) = 6
    /\ Len(trim(sorted(SampleOf(last_resp)))) = 4
    /\ Cardinality(Range(SampleOf(last_resp))) > 1
    /\ AskedName \in DOMAIN refs
    /\ refs[AskedName] = trimmed_median(SampleOf(last_resp))

\* the bid field of a record that current_bid_usd reads, in minor units
BidField(L) ==
    IF L.current_bid > 0 THEN L.current_bid
    ELSE IF L.current_price > 0 THEN L.current_price
    ELSE IF L.price > 0 THEN L.price
    ELSE L.auction_bid

\* C15: the bid that is compared with the ceiling and with the target is
\* the record's bid in minor units divided by 100: every candidate's bid,
\* and every kept deal's, is its record's bid field taken as cents.
C15_BidIsCentsOverHundred ==
    /\ \A k \in DOMAIN candidates :
         candidates[k].bid = HalfPerCent * BidField(candidates[k].L)
    /\ \A k \in DOMAIN deals :
         \E j \in DOMAIN candidates :
           /\ candidates[j].lid = deals[k].id
           /\ deals[k].bid = HalfPerCent * BidField(candidates[j].L)

\* C16: a malformed auction record does not abort the pass.  When the fetch
\* of a pass is over without a failed request, run_once has not raised, and
\* every well-formed auction of the batch that is in a window, not yet sent
\* at its stage and within the bid ceiling is a candidate.
C16_MalformedRecordSkipped ==
    [][ (/\ pc = "fetch" /\ pc' \notin {"fetch", "down"}
         /\ ~(pc' = "raised" /\ exc' = "fetch")) =>
          /\ pc' # "raised"
          /\ \A i \in 1..Len(auctions') :
               LET L == auctions'[i] IN
               (/\ Eligible(L)
                /\ seconds_left(L, now) # NONE
                /\ stage_window(seconds_left(L, now)) # "none"
                /\ StageGet(state, lid_of(L)) # stage_window(seconds_left(L, now))) =>
                  \E k \in 1..Len(candidates') : candidates'[k].L = L
      ]_vars

\* the whole seconds of a timestamp: a value above 10^12 is milliseconds
SecondsOf(t) ==
    IF t.mega > MEGA \/ (t.mega = MEGA /\ t.unit > 0)
    THEN 1000 * t.mega + t.unit \div 1000
    ELSE MEGA * t.mega + t.unit

\* seconds remaining by the fixed priority: a positive time_left; else the
\* first positive of expires_at, ends_at, end_time; else a positive ends_at
\* of the nested auction; NONE when none of them resolves
ResolvedSecs(L, t0) ==
    LET stamps == <<L.expires_at, L.ends_at, L.end_time>>
        hits == {i \in 1..3 : positive(stamps[i])}
    IN IF L.time_left > 0 THEN L.time_left
       ELSE IF hits # {}
       THEN Max(0, SecondsOf(stamps[CHOOSE i \in hits : \A j \in hits : i <= j]) - t0)
       ELSE IF L.auction_t = "dict" /\ positive(L.auction_ends_at)
       THEN Max(0, SecondsOf(L.auction_ends_at) - t0)
       ELSE NONE

\* the records of aucs with usable id lid whose seconds remaining resolve
ResolvableOf(aucs, lid, t0) ==
    {i \in 1..Len(aucs) :
       aucs[i].isdict /\ lid_of(aucs[i]) = lid /\ ResolvedSecs(aucs[i], t0) # NONE}

\* C17: for every fetched record seconds_left is the value of the fixed
\* priority and is not negative; a candidate carries that value; a record
\* it does not resolve for is no candidate, and a listing with no
\* resolvable record in the pass gets no deal and no stage-map write.
C17_SecondsLeftByPriority ==
    [][ /\ (pc = "fetch" /\ pc' \in {"refs", "sleep", "done"}) =>
             \A i \in 1..Len(auctions') :
                LET L == auctions'[i] IN
                L.isdict =>
                  /\ seconds_left(L, now) = ResolvedSecs(L, now)
                  /\ ResolvedSecs(L, now) # NONE => ResolvedSecs(L, now) >= 0
                  /\ \A k \in 1..Len(candidates') :
                        candidates'[k].L = L =>
                          /\ ResolvedSecs(L, now) # NONE
                          /\ candidates'[k].secs = ResolvedSecs(L, now)
        /\ (pc = "refs" /\ pc' \in PricedPcs) =>
             \A i \in 1..Len(auctions) :
                LET lid == lid_of(auctions[i]) IN
                (/\ auctions[i].isdict /\ lid # NONE
                 /\ ResolvableOf(auctions, lid, now) = {}) =>
                   /\ StageGet(state', lid) = StageGet(state, lid)
                   /\ \A k \in 1..Len(deals') : deals'[k].id # lid
        /\ sent' # sent => pc = "send" /\ sent' = deals
      ]_vars

\* the candidates of a pass hold a record resolved by time_left although
\* it has a later expires_at, one resolved by ends_at although it has a
\* later end_time, and one resolved by a millisecond end_time although its
\* nested auction ends earlier, while a record with no time field was
\* fetched and is no candidate
C17_Witness ==
    /\ pc = "refs" /\ now = Now0
    /\ \E k \in 1..Len(candidates) :
         /\ candidates[k].L = TlWins /\ candidates[k].secs = 200
         /\ candidates[k].stage_needed = STAGE_5M
    /\ \E k \in 1..Len(candidates) :
         /\ candidates[k].L = EndsAt /\ candidates[k].secs = 100
         /\ candidates[k].stage_needed = STAGE_5M
    /\ \E k \in 1..Len(candidates) :
         /\ candidates[k].L = EndTime /\ candidates[k].secs = 550
         /\ candidates[k].stage_needed = STAGE_10M
    /\ \E i \in 1..Len(auctions) : auctions[i] = NoTime
    /\ \A k \in 1..Len(candidates) : candidates[k].L # NoTime

\* the deal of the example: listing 1 ("X"), bid $80, reference $100, 290 s left
XDeal ==
    [id |-> 1, item |-> "A", bid |-> 80 * HalfPerUsd, ref |-> 100 * HalfPerUsd,
     mins_left |-> 4, stage |-> STAGE_5M]

\* a pass is over that started without X in the stage map, fetched X alone,
\* with 290 s left and a bid of 8000 cents, and priced its item at $100
XPassOver ==
    /\ pc \in {"sleep", "done"}
    /\ StageGet(Loaded, 1) = "unseen"
    /\ Len(auctions) = 1 /\ auctions[1].isdict
    /\ auctions[1].id_t = "int" /\ auctions[1].id_n = 1
    /\ auctions[1].time_left = 290 /\ auctions[1].current_bid = 8000
    /\ auctions[1].item_t = "dict" /\ auctions[1].name = "A"
    /\ "A" \in DOMAIN refs /\ refs["A"] = 100 * HalfPerUsd

\* C18: such a pass has handed exactly one deal to the notifier, the deal
\* for X at stage t5 with bid $80 and reference $100 (the target being
\* $88), and, the state store having worked, the state file holds a map
\* with X at t5.
C18_EndToEnd ==
    XPassOver =>
      /\ 100 * HalfPerUsd * (100 - PROFIT_UNDER_PCT) = 100 * (88 * HalfPerUsd)
      /\ sent = <<XDeal>>
      /\ alerts[<<1, STAGE_5M>>] >= 1
      /\ StageGet(state, 1) = STAGE_5M
      /\ store_ok => file.kind = "ok" /\ StageGet(file.map, 1) = STAGE_5M

\* the example's pass is over with a working store: its deal was sent once
\* and is in the state file
C18_Witness ==
    /\ XPassOver /\ store_ok
    /\ sent = <<XDeal>> /\ alerts = (<<1, STAGE_5M>> :> 1)
    /\ file = GoodFile(1 :> STAGE_5M)

\* run_once is between load_state and its return
InPass == pc \in {"fetch", "refs", "save_open", "save_dump", "send"}

\* the map m2 differs from m1 only in entries of listings ds holds a deal
\* for, which have that deal's stage, and holds every entry of m1
FrameOf(m1, m2, ds) ==
    /\ DOMAIN m1 \subseteq DOMAIN m2
    /\ \A id \in DOMAIN m2 :
         StageGet(m2, id) # StageGet(m1, id) =>
           \E k \in 1..Len(ds) : ds[k].id = id /\ ds[k].stage = m2[id]

\* C19: a pass changes the stage-map entry of a listing only when it keeps
\* a deal for it, at the step that ends the pricing loop; every other
\* entry stays and none is removed, in the map and in the state file a
\* save writes; and the state file is written by save_state only, in a
\* pass that kept a deal: a pass that ends with no auctions, no candidates
\* or no deals leaves the file as it was.
C19_StageMapFrame ==
    [][ /\ (InPass /\ pc' # "down") =>
             /\ FrameOf(state, state', deals')
             /\ state' # state => pc = "refs" /\ pc' = "save_open"
             /\ FrameOf(Loaded, state', deals')
        /\ file' # file => pc \in {"save_open", "save_dump"} /\ deals # <<>>
        /\ (pc = "save_dump" /\ file'.kind = "ok") => FrameOf(Loaded, file'.map, deals)
        /\ (pc \in {"fetch", "refs"} /\ pc' \in {"sleep", "done"}) =>
             /\ deals' = <<>> /\ state' = state /\ state' = Loaded
             /\ file' = file /\ sent' = sent
      ]_vars

\* a pass that started with a map of several listings has saved it with new
\* entries for its kept deals, the old entries of the listings without a
\* deal being as they were, while a candidate at or below target that the
\* cap cut off has no entry
C19_Witness ==
    /\ pc = "send" /\ file = GoodFile(state) /\ state # Loaded
    /\ Len(deals) = TOP_N_GLOBAL
    /\ \E id \in DOMAIN Loaded :
         /\ \A k \in 1..Len(deals) : deals[k].id # id
         /\ state[id] = Loaded[id]
    /\ \E i \in 1..Len(candidates) :
         /\ AtOrBelowTarget(candidates[i], refs)
         /\ \A k \in 1..Len(deals) : deals[k].id # candidates[i].lid
         /\ StageGet(state, candidates[i].lid) = "unseen"

====
